---- MODULE Spec2Model ----
(***************************************************************************)
(* A model of lib/shopify/index.ts: the commerce adapter's transport       *)
(* client (shopifyFetch), its cart operations, its read operations, its    *)
(* shape normalizers (reshape...) and the webhook revalidation handler     *)
(* (revalidate).                                                           *)
(*                                                                         *)
(* Every exported operation is one action.  The operation's result is a    *)
(* pure operator of its arguments (and of the process configuration), and  *)
(* the action records the call in op/args/result and applies its effects   *)
(* (revalidateTag calls, the outbound request).                            *)
(***************************************************************************)
EXTENDS Integers, Sequences, FiniteSets, TLC

\* The field names of the model's records.  TLC orders the fields of a record
\* by the first occurrence of their names in the module; with the names
\* introduced here in the order every record constructor below writes them, a
\* record is built in its normal form and no worker reorders a shared one.
FieldNames ==
    [ SHOPIFY_REVALIDATION_SECRET : {}, SHOPIFY_STOREFRONT_ACCESS_TOKEN :
      {}, SHOPIFY_STORE_DOMAIN : {}, after : {}, altText : {}, amount : {},
      args : {}, availableForSale : {}, body : {}, cache : {}, cart : {},
      cartId : {}, cause : {}, checkoutUrl : {}, collection : {},
      collections : {}, cost : {}, createdAt : {}, currencyCode : {}, data :
      {}, description : {}, does : {}, edges : {}, error : {}, errors : {},
      featuredImage : {}, filterHiddenProducts : {}, frac : {}, handle : {},
      headers : {}, height : {}, id : {}, images : {}, in : {}, inherited :
      {}, items : {}, kind : {}, lineIds : {}, lines : {}, merchandise : {},
      merchandiseId : {}, message : {}, method : {}, name : {}, next : {},
      node : {}, none : {}, now : {}, op : {}, path : {}, product : {},
      productId : {}, productTitle : {}, products : {}, quantity : {}, query
      : {}, response : {}, result : {}, revalidated : {}, reverse : {},
      secret : {}, selectedOptions : {}, sent : {}, sortKey : {}, status :
      {}, subtotalAmount : {}, tags : {}, title : {}, topic : {},
      totalAmount : {}, totalQuantity : {}, totalTaxAmount : {}, type : {},
      units : {}, updatedAt : {}, upstream : {}, url : {}, value : {},
      variables : {}, variants : {}, width : {} ]

VARIABLES
    env,          \* process.env, read at lines 53-57 and 1203
    op,           \* name of the operation called last ("init" before any)
    args,         \* its arguments
    result,       \* what it returned or threw
    tagCalls,     \* the revalidateTag calls of the last operation, in order
    invalidated,  \* every cache tag invalidated so far (next/cache)
    request,      \* the request the last operation handed to fetch
    argsAfter,    \* the caller's argument objects once the operation is over
    remembered    \* observer: one earlier cart call, kept for comparison

vars ==
    <<env, op, args, result, tagCalls, invalidated, request, argsAfter, remembered>>

----------------------------------------------------------------------------
(* Bounds of the model *)

MaxLines == 1      \* longest `lines` / `lineIds` argument of a cart write
MaxQty == 2        \* largest quantity of an input line
MaxNow == 1        \* Date.now() / new Date() readings
MaxErrors == 2     \* longest `errors` list of an upstream response
MaxEdges == 2      \* longest connection (edges) and longest list to reshape
MaxPieces == 3     \* longest menu path, in pieces

----------------------------------------------------------------------------
(* JavaScript values *)

Undefined == "<undefined>"
Null == "<null>"

\* !x for a string-or-null/undefined value
Falsy(x) == x \in {Undefined, Null, ""}

Range(s) == {s[i] : i \in 1..Len(s)}

SeqsUpTo(S, n) == UNION {[1..k -> S] : k \in 0..n}

RECURSIVE SumQty(_)
SumQty(ls) == IF ls = <<>> THEN 0 ELSE ls[1].quantity + SumQty(Tail(ls))

\* A decimal string such as "60.00": its integer part and its fraction digits
Dec(units, frac) == [frac |-> frac, units |-> units]

\* Number.prototype.toFixed(2) of an integer n
toFixed2(n) == Dec(n, <<0, 0>>)

Money(units, frac) == [amount |-> Dec(units, frac), currencyCode |-> "USD"]

Timestamps == 1..MaxNow

----------------------------------------------------------------------------
(* Configuration *)

\* TAGS of lib/constants
TAGS == [collections |-> "collections", products |-> "products"]

Secrets == {Undefined, "", "s3cret"}

AccessToken == "shpat_token"

StoreDomains == {Undefined, "shop.example"}

\* ensureStartsWith of lib/utils: a string, as the sequence of its pieces
ensureStartsWith(str, prefix) == <<prefix, str>>

\* line 53: the storefront domain; the empty string when none is configured
domain ==
    IF Falsy(env.SHOPIFY_STORE_DOMAIN)
    THEN <<>>
    ELSE ensureStartsWith(env.SHOPIFY_STORE_DOMAIN, "https://")

\* line 57
key == env.SHOPIFY_STOREFRONT_ACCESS_TOKEN

----------------------------------------------------------------------------
(* Transport client: lines 61-115 *)

\* { ...a, ...b }: the keys of both, b's value where both have the key
Spread(a, b) ==
    [k \in DOMAIN a \cup DOMAIN b |-> IF k \in DOMAIN b THEN b[k] ELSE a[k]]

NoFields == [k \in {} |-> Undefined]

\* The caller's `headers`; none given spreads like the empty object
CallerHeaders ==
    { NoFields,
      [k \in {"X-Trace"} |-> "t1"],
      [k \in {"X-Shopify-Storefront-Access-Token"} |-> "caller-token"],
      [k \in {"Content-Type"} |-> "text/plain"] }

Queries == {"", "query getCart"}

\* The optional arguments cache, tags and variables: all absent, or all given
FetchOptions ==
    { NoFields,
      [cache |-> "no-store", tags |-> <<"products">>,
       variables |-> [cartId |-> "cart1"]] }

\* The entries of an upstream `errors` list
Throttled == [message |-> "Throttled", type |-> "object"]
Denied ==
    [cause |-> "ACCESS_DENIED", message |-> "Access denied", status |-> 403,
     type |-> "object"]
UpstreamErrors == {Throttled, Denied}

ErrorLists == UNION {[1..n -> UpstreamErrors] : n \in 0..MaxErrors}

\* The values fetch() and result.json() throw, and the value of [][0]
NetworkFailure == [message |-> "fetch failed", type |-> "TypeError"]
ParseFailure == [message |-> "Unexpected token < in JSON", type |-> "SyntaxError"]
NullBodyFailure == [message |-> "Cannot read properties of null", type |-> "TypeError"]
ThrownUndefined == [type |-> "undefined"]

\* What the upstream does with one request
Upstream ==
    { [does |-> "fetch throws"], [does |-> "json throws"], [does |-> "null body"] }
    \cup [does : {"data"}, status : {200, 404}]
    \cup [does : {"errors"}, errors : ErrorLists, status : {200}]

\* isShopifyError of lib/type-guards: an error object of the upstream's error
\* list, or a structured error carrying a cause and a status
isShopifyError(e) ==
    \/ e.type = "object" /\ "message" \in DOMAIN e
    \/ {"cause", "status", "message"} \subseteq DOMAIN e

\* lines 100-114: the catch clause
Classify(e, query) ==
    IF isShopifyError(e)
    THEN [kind |-> "throw",
          value |-> [cause |-> IF "cause" \in DOMAIN e /\ ~Falsy(e.cause)
                                THEN e.cause ELSE "unknown",
                     message |-> e.message,
                     query |-> query,
                     status |-> IF "status" \in DOMAIN e /\ e.status # 0
                                 THEN e.status ELSE 500]]
    ELSE [kind |-> "throw", value |-> [error |-> e, query |-> query]]

\* lines 77-81: the headers of the request
RequestHeaders(headers) ==
    Spread([k \in {"Content-Type", "X-Shopify-Storefront-Access-Token"} |->
               IF k = "Content-Type" THEN "application/json" ELSE key],
           headers)

\* lines 75-88: the request handed to fetch
FetchRequest(in) ==
    Spread([body |-> Spread(IF Falsy(in.query) THEN NoFields ELSE [query |-> in.query],
                            IF "variables" \in DOMAIN in
                            THEN [variables |-> in.variables] ELSE NoFields),
            cache |-> IF "cache" \in DOMAIN in THEN in.cache ELSE "force-cache",
            headers |-> RequestHeaders(in.headers),
            method |-> "POST",
            sent |-> TRUE],
           IF "tags" \in DOMAIN in THEN [next |-> [tags |-> in.tags]] ELSE NoFields)

\* shopifyFetch without the check of line 92: a body with errors is returned
shopifyFetchIgnoringErrors(in, up) ==
    IF up.does = "fetch throws" THEN Classify(NetworkFailure, in.query)
    ELSE IF up.does = "json throws" THEN Classify(ParseFailure, in.query)
    ELSE IF up.does = "null body" THEN Classify(NullBodyFailure, in.query)
    ELSE [body |-> [data |-> "data"], kind |-> "ok", status |-> up.status]

\* lines 74-114: what the call returns or throws, given what the upstream does
shopifyFetch(in, up) ==
    IF up.does = "fetch throws" THEN Classify(NetworkFailure, in.query)
    ELSE IF up.does = "json throws" THEN Classify(ParseFailure, in.query)
    ELSE IF up.does = "null body" THEN Classify(NullBodyFailure, in.query)
    ELSE IF up.does = "errors"
    THEN \* line 92: any list is truthy; the first entry of an empty one is undefined
         Classify(IF up.errors = <<>> THEN ThrownUndefined ELSE up.errors[1], in.query)
    ELSE [body |-> [data |-> "data"], kind |-> "ok", status |-> up.status]

\* The argument objects: every caller header set with a plain query, and every
\* query with every set of options
FetchInputs ==
    {[headers |-> h, query |-> "query getCart"] : h \in CallerHeaders}
    \cup {Spread(o, [headers |-> NoFields, query |-> q]) :
              q \in Queries, o \in FetchOptions}

ShopifyFetch ==
    \E in \in FetchInputs, up \in Upstream :
            /\ op' = "shopifyFetch"
            /\ args' = [in |-> in, upstream |-> up]
            /\ result' = shopifyFetch(in, up)
            /\ request' = FetchRequest(in)
            /\ tagCalls' = <<>>
            /\ argsAfter' = args'
            /\ UNCHANGED <<env, invalidated, remembered>>

----------------------------------------------------------------------------
(* Cart operations: lines 204-441 *)

CartIds == {"cart1", "cart2"}
MerchandiseIds == {"001", "m1"}
LineIds == {"line1"}
Quantities == 1..MaxQty

AddLines == [merchandiseId : MerchandiseIds, quantity : Quantities]
UpdateLines == [id : LineIds, merchandiseId : MerchandiseIds, quantity : Quantities]

Image(url, alt) == [altText |-> alt, height |-> 500, url |-> url, width |-> 500]

\* A line's merchandise: fields id, title, selectedOptions and product
Merchandise(id, title, size, handle, image) ==
    [id |-> id,
     product |-> [featuredImage |-> image, handle |-> handle, id |-> id,
                  title |-> title],
     selectedOptions |-> <<[name |-> "Size", value |-> size]>>,
     title |-> title]

TShirtMerchandise ==
    Merchandise("001", "Acme Classic T-Shirt", "Medium", "classic-t-shirt",
                Image("/local_data_store/t-shirt-1.avif", "A cool t-shirt"))

HoodieMerchandise(url) ==
    Merchandise("002", "Acme Vintage Hoodie", "Large", "vintage-hoodie",
                Image(url, "A vintage hoodie"))

CartLine(id, quantity, total, merchandise) ==
    [cost |-> [totalAmount |-> total], id |-> id,
     merchandise |-> merchandise, quantity |-> quantity]

Cart(id, sub, total, tax, lines, totalQuantity) ==
    [checkoutUrl |-> "https://example.com/checkout",
     cost |-> [subtotalAmount |-> sub, totalAmount |-> total, totalTaxAmount |-> tax],
     id |-> id, kind |-> "cart", lines |-> lines, totalQuantity |-> totalQuantity]

Absent == [kind |-> "undefined"]

createCart ==
    Cart("newCartId123", Money(60, <<0, 0>>), Money(70, <<0, 0>>), Money(10, <<0, 0>>),
         <<CartLine("line1", 5, Money(60, <<0, 0>>),
                    HoodieMerchandise("/local_data_store/hoodie-1.avif"))>>,
         1)

addToCart(cartId, lines) ==
    Cart(cartId, Money(120, <<0, 0>>), Money(130, <<0, 0>>), Money(10, <<0, 0>>),
         <<CartLine("line1", 2, Money(60, <<0, 0>>), TShirtMerchandise),
           CartLine("line2", 1, Money(60, <<0, 0>>),
                    HoodieMerchandise("/local_data_store/t-shirt-1.avif"))>>,
         3)

removeFromCart(cartId, lineIds) ==
    Cart(cartId, Money(80, <<0, 0>>), Money(88, <<0, 0>>), Money(8, <<0, 0>>),
         <<CartLine("line1", 1, Money(40, <<0, 0>>), TShirtMerchandise)>>,
         1)

updateCartLine(line) ==
    CartLine(line.id, line.quantity,
             [amount |-> toFixed2(40 * line.quantity), currencyCode |-> "USD"],
             Merchandise(line.merchandiseId, "Acme Product", "Default", "product-handle",
                         Image("/local_data_store/t-shirt-1.avif", "Product Image")))

updateCart(cartId, lines) ==
    Cart(cartId, Money(160, <<0, 0>>), Money(172, <<0, 0>>), Money(12, <<0, 0>>),
         [i \in 1..Len(lines) |-> updateCartLine(lines[i])],
         SumQty(lines))

\* getCart reading a cart that the last write left behind
getCartShared(cartId) ==
    IF Falsy(cartId)
    THEN Absent
    ELSE IF op = "updateCart" /\ args.cartId = cartId
    THEN result
    ELSE Cart(cartId, Money(120, <<0, 0>>), Money(130, <<0, 0>>), Money(10, <<0, 0>>),
              <<CartLine("line1", 2, Money(60, <<0, 0>>), TShirtMerchandise)>>,
              2)

getCart(cartId) ==
    IF Falsy(cartId)
    THEN Absent
    ELSE Cart(cartId, Money(120, <<0, 0>>), Money(130, <<0, 0>>), Money(10, <<0, 0>>),
              <<CartLine("line1", 2, Money(60, <<0, 0>>), TShirtMerchandise)>>,
              2)

----------------------------------------------------------------------------
(* Read operations: lines 443-1189 *)

Value(v) == [kind |-> "value", value |-> v]
List(items) == [items |-> items, kind |-> "list"]
Throw(v) == [kind |-> "throw", value |-> v]

\* s.toLowerCase(), on the strings the model searches
toLowerCase(s) ==
    CASE s = "SHIRT" -> "shirt"
      [] s = "Classic T-Shirt" -> "classic t-shirt"
      [] s = "A perfect t-shirt for everyday wear." ->
             "a perfect t-shirt for everyday wear."
      [] OTHER -> s

\* hay.includes(needle), on the same strings
includes(hay, needle) ==
    \/ needle = ""
    \/ needle = hay
    \/ /\ needle = "shirt"
       /\ hay \in {"classic t-shirt", "a perfect t-shirt for everyday wear."}

\* The rank of a string in the order of JavaScript's < on strings
StrRank(s) ==
    CASE s = "001" -> 1
      [] s = "Acme Classic T-Shirt" -> 2
      [] s = "Acme Cup" -> 3
      [] s = "Acme Drawstring Bag" -> 4
      [] s = "Classic T-Shirt" -> 5
      [] s = "acme-cup" -> 6
      [] s = "acme-drawstring-bag" -> 7
      [] s = "classic-t-shirt" -> 8

\* A sort that puts an entry before the entries that compare equal to it
SortByUnstable(items, cmp) ==
    LET RECURSIVE Insert(_, _)
        Insert(sorted, x) ==
            IF sorted = <<>> THEN <<x>>
            ELSE IF cmp[sorted[Len(sorted)], x] >= 0
                 THEN Append(Insert(SubSeq(sorted, 1, Len(sorted) - 1), x),
                             sorted[Len(sorted)])
                 ELSE Append(sorted, x)
        RECURSIVE Sort(_)
        Sort(n) == IF n = 0 THEN <<>> ELSE Insert(Sort(n - 1), items[n])
    IN  Sort(Len(items))

\* Array.prototype.sort is stable: each entry is inserted after the last entry
\* that is not greater than it; cmp[a, b] is the comparator's number for a, b
SortBy(items, cmp) ==
    LET RECURSIVE Insert(_, _)
        Insert(sorted, x) ==
            IF sorted = <<>> THEN <<x>>
            ELSE IF cmp[sorted[Len(sorted)], x] > 0
                 THEN Append(Insert(SubSeq(sorted, 1, Len(sorted) - 1), x),
                             sorted[Len(sorted)])
                 ELSE Append(sorted, x)
        RECURSIVE Sort(_)
        Sort(n) == IF n = 0 THEN <<>> ELSE Insert(Sort(n - 1), items[n])
    IN  Sort(Len(items))

Reverse(items) == [i \in 1..Len(items) |-> items[Len(items) + 1 - i]]

Product(id, handle, title, description, tags, updatedAt) ==
    [availableForSale |-> TRUE, description |-> description, handle |-> handle,
     id |-> id, tags |-> tags, title |-> title, updatedAt |-> updatedAt]

\* The handles the model calls with: known ones, an unknown one, and the name
\* of a member every object literal inherits
Handles ==
    {"All", "about", "classic-t-shirt", "constructor", "next-js-frontend-footer-menu",
     "nope"}

\* The members an object literal inherits from Object.prototype
ObjectPrototypeKeys ==
    {"__proto__", "constructor", "hasOwnProperty", "toString", "valueOf"}

Inherited(k) == [inherited |-> k, type |-> "function"]

\* obj[k] for an object literal obj: its own property, else the inherited
\* member of that name, else undefined
Lookup(obj, k) ==
    IF k \in DOMAIN obj THEN Value(obj[k])
    ELSE IF k \in ObjectPrototypeKeys THEN Value(Inherited(k))
    ELSE Absent

\* A string as the sequence of its pieces; the empty string has none
Str(s) == IF s = "" THEN <<>> ELSE <<s>>

\* lines 443-461
getCollection(handle, now) ==
    LET collections ==
            [h \in {"All"} |->
                [description |-> "Explore our exciting new collection for Spring 2020!",
                 handle |-> "spring-2020",
                 path |-> <<"/collections", "/", "spring-2020">>,
                 title |-> "Spring 2020 Collection", updatedAt |-> now]]
    IN  Lookup(collections, handle)

\* lines 464-466
isValidProductKey(k) ==
    k \in {"id", "handle", "title", "availableForSale", "description",
           "descriptionHtml", "options", "priceRange", "variants", "images",
           "featuredImage", "seo", "tags", "updatedAt"}

\* lines 1099-1101
isKeyOfProduct(k) ==
    k \in {"id", "handle", "title", "description", "availableForSale",
           "descriptionHtml", "options", "priceRange", "variants", "images", "seo",
           "tags", "updatedAt"}

\* The sort keys the model calls with: none, three string fields, an unknown one
SortKeys == {Undefined, "id", "handle", "title", "price"}
\* The optional `reverse` argument: absent, or a boolean
Reverses == {NoFields} \cup [reverse : BOOLEAN]

\* if (a.reverse): false for an absent one
Given(o, name) == name \in DOMAIN o /\ o[name] = TRUE

\* lines 477-678
CollectionProducts(now) ==
    << Product("001", "classic-t-shirt", "Acme Classic T-Shirt",
               "A classic cotton t-shirt", <<"fashion", "cotton", "t-shirt">>, now),
       Product("001", "acme-cup", "Acme Cup",
               "A cup", <<"fashion", "cotton", "t-shirt">>, now),
       Product("001", "acme-drawstring-bag", "Acme Drawstring Bag",
               "A classic cotton t-shirt", <<"fashion", "cotton", "t-shirt">>, now),
       Product("001", "acme-drawstring-bag", "Acme Drawstring Bag",
               "A classic cotton t-shirt", <<"fashion", "cotton", "t-shirt">>, now) >>

\* lines 680-683: the listing handed to sort
reversedProducts(o, now) ==
    IF Given(o, "reverse") THEN Reverse(CollectionProducts(now))
    ELSE CollectionProducts(now)

\* lines 468-695
getCollectionProducts(o, now) ==
    LET sortKey == o.sortKey
        reversed == reversedProducts(o, now)
        cmp == [a \in Range(reversed), b \in Range(reversed) |->
                   IF StrRank(a[sortKey]) > StrRank(b[sortKey]) THEN 1
                   ELSE IF StrRank(a[sortKey]) < StrRank(b[sortKey]) THEN -1 ELSE 0]
    IN  List(IF ~Falsy(sortKey) /\ isValidProductKey(sortKey)
             THEN SortBy(reversed, cmp) ELSE reversed)

\* s.startsWith(prefix), on the handles of the model
startsWith(s, prefix) == s = prefix \/ (prefix = "hidden" /\ s = "hidden-sale")

\* lines 697-716
getCollections(now) ==
    LET staticCollections ==
            <<[description |-> "All products", handle |-> "", path |-> <<"/search">>,
               title |-> "All", updatedAt |-> now]>>
        visible(c) == ~startsWith(c.handle, "hidden")
    IN  List(SelectSeq(staticCollections, visible))

\* s.replace(pattern, replacement) on strings held as sequences of pieces: the
\* first occurrence of the pattern's pieces is replaced
RECURSIVE replace(_, _, _)
replace(s, pattern, replacement) ==
    IF pattern = <<>> THEN replacement \o s
    ELSE IF Len(s) < Len(pattern) THEN s
    ELSE IF SubSeq(s, 1, Len(pattern)) = pattern
         THEN replacement \o SubSeq(s, Len(pattern) + 1, Len(s))
         ELSE <<s[1]>> \o replace(Tail(s), pattern, replacement)

\* line 739: the path of a menu item
menuPath(path) ==
    replace(replace(replace(path, domain, <<>>), <<"/collections">>, <<"/search">>),
            <<"/pages">>, <<>>)

\* lines 720-741
getMenu(handle) ==
    LET menus ==
            [h \in {"next-js-frontend-footer-menu", "next-js-frontend-header-menu"} |->
                IF h = "next-js-frontend-footer-menu"
                THEN <<[path |-> <<"/">>, title |-> "Home"],
                       [path |-> <<"/about">>, title |-> "About Us"],
                       [path |-> <<"/contact">>, title |-> "Contact"]>>
                ELSE <<[path |-> <<"/search">>, title |-> "All"]>>]
        rewrite(item) == [path |-> menuPath(item.path), title |-> item.title]
    IN  IF handle \in DOMAIN menus
        THEN List([i \in 1..Len(menus[handle]) |-> rewrite(menus[handle][i])])
        ELSE IF Lookup(menus, handle) = Absent
        THEN List(<<>>)
        ELSE \* an inherited member is not nullish and has no map method
             Throw([message |-> <<"menus[handle]?.map is not a function">>,
                    type |-> "TypeError"])

Page(id, title, handle, now) ==
    [createdAt |-> now, handle |-> handle, id |-> id, title |-> title,
     updatedAt |-> now]

\* lines 743-782
getPage(handle, now) ==
    LET staticPages ==
            [h \in {"about", "contact"} |->
                IF h = "about" THEN Page("1", "About Us", "about", now)
                ELSE Page("2", "Contact", "contact", now)]
        page == Lookup(staticPages, handle)
    IN  IF page # Absent
        THEN page
        ELSE Throw([message |-> <<"Page with handle '", handle, "' not found.">>,
                    type |-> "Error"])

\* lines 784-830
getPages(now) ==
    List(<<Page("1", "About Us", "about-us", now),
           Page("2", "Contact Us", "contact", now),
           Page("3", "Services", "services", now)>>)

\* lines 832-1025
getProduct(handle, now) ==
    LET staticProducts ==
            [h \in {"classic-t-shirt", "acme-cup", "acme-drawstring-bag"} |->
                IF h = "classic-t-shirt"
                THEN Product("001", "classic-t-shirt", "Classic T-Shirt",
                             "A perfect t-shirt for everyday wear.",
                             <<"fashion", "cotton", "t-shirt">>, now)
                ELSE IF h = "acme-cup"
                THEN Product("002", "acme-cup", "Acme Cup",
                             "A stylish cup for all your drinking needs.",
                             <<"home", "cup", "acme">>, now)
                ELSE Product("003", "acme-drawstring-bag", "Acme Drawstring Bag",
                             "Perfect for on-the-go storage of your essentials.",
                             <<"fashion", "bag", "drawstring">>, now)]
    IN  Lookup(staticProducts, handle)

\* lines 1027-1092
getProductRecommendations(productId, now) ==
    IF productId = "001"
    THEN List(<<Product("002", "vintage-hoodie", "Vintage Hoodie",
                        "A cozy hoodie for chilly evenings.",
                        <<"hoodie", "vintage", "winter">>, now)>>)
    ELSE List(<<>>)

SearchQueries == {Undefined, "SHIRT", "mug"}

\* lines 1113-1172: the products matching the query, handed to sort
filteredProductsOf(o, now) ==
    LET query == o.query
        staticProducts ==
            <<Product("001", "classic-t-shirt", "Classic T-Shirt",
                      "A perfect t-shirt for everyday wear.",
                      <<"fashion", "cotton", "t-shirt">>, now)>>
        matches(p) == \/ includes(toLowerCase(p.title), toLowerCase(query))
                      \/ includes(toLowerCase(p.description), toLowerCase(query))
    IN  IF ~Falsy(query) THEN SelectSeq(staticProducts, matches) ELSE staticProducts

\* lines 1103-1189
getProducts(o, now) ==
    LET sortKey == o.sortKey
        reverse == Given(o, "reverse")
        filteredProducts == filteredProductsOf(o, now)
        cmp == [a \in Range(filteredProducts), b \in Range(filteredProducts) |->
                   IF StrRank(a[sortKey]) < StrRank(b[sortKey])
                   THEN (IF reverse THEN 1 ELSE -1)
                   ELSE IF StrRank(a[sortKey]) > StrRank(b[sortKey])
                   THEN (IF reverse THEN -1 ELSE 1)
                   ELSE 0]
    IN  List(IF ~Falsy(sortKey) /\ isKeyOfProduct(sortKey)
             THEN SortBy(filteredProducts, cmp) ELSE filteredProducts)

----------------------------------------------------------------------------
(* Shape normalizers: lines 117-202 *)

\* A JavaScript array held in a field of an object
Array(items) == [items |-> items]

\* A connection: { edges: [{ node }, ...] }
Connection(nodes) == [edges |-> [i \in 1..Len(nodes) |-> [node |-> nodes[i]]]]

TypeError(message) == Throw([message |-> <<message>>, type |-> "TypeError"])

\* lines 117-119; array.edges of a value that is no connection is undefined
removeEdgesAndNodes(array) ==
    Array([i \in 1..Len(array.edges) |-> array.edges[i].node])

Currencies == {"CAD", "USD"}

ShopifyLines ==
    { [id |-> "line1", quantity |-> 1], [id |-> "line2", quantity |-> 2] }

\* The carts of the upstream: with and without a tax amount, in two
\* currencies, and one without a cost
ShopifyCarts ==
    { [checkoutUrl |-> "https://example.com/checkout",
       cost |-> Spread([subtotalAmount |-> [amount |-> Dec(60, <<0, 0>>),
                                            currencyCode |-> c],
                        totalAmount |-> [amount |-> Dec(70, <<0, 0>>),
                                         currencyCode |-> c]],
                       tax),
       id |-> "cart1", lines |-> Connection(nodes),
       totalQuantity |-> SumQty(nodes)] :
          c \in Currencies,
          tax \in {NoFields} \cup
                  {[totalTaxAmount |-> [amount |-> Dec(10, <<0, 0>>),
                                        currencyCode |-> cc]] : cc \in Currencies},
          nodes \in SeqsUpTo(ShopifyLines, MaxEdges) }
    \cup { [checkoutUrl |-> "https://example.com/checkout", id |-> "cart2",
            lines |-> Connection(<<>>), totalQuantity |-> 0] }

\* lines 121-133: the cart returned (or the error thrown), and the caller's
\* cart as the call leaves it
reshapeCart(cart) ==
    LET hasCost == "cost" \in DOMAIN cart
        hasTax == hasCost /\ "totalTaxAmount" \in DOMAIN cart.cost
        defaulted ==
            [cart EXCEPT !.cost =
                Spread(@, [totalTaxAmount |-> [amount |-> Dec(0, <<0>>),
                                               currencyCode |-> "USD"]])]
        after == IF hasTax THEN cart ELSE defaulted
    IN  IF ~hasCost
        THEN [after |-> cart,
              result |-> TypeError("Cannot set properties of undefined")]
        ELSE IF "edges" \notin DOMAIN after.lines
        THEN [after |-> after,
              result |-> TypeError("Cannot read properties of undefined (reading 'map')")]
        ELSE [after |-> after,
              result |-> Value(Spread(after,
                                      [lines |-> removeEdgesAndNodes(after.lines)]))]

ShopifyCollection(handle) ==
    [description |-> "A collection", handle |-> handle, title |-> "Collection"]

\* The collections of the upstream, and the absent one
ShopifyCollections ==
    {ShopifyCollection(h) : h \in {"", "hidden-sale", "spring-2020"}}
    \cup {Spread(ShopifyCollection("spring-2020"),
                 [path |-> <<"/collections", "/", "spring-2020">>])}
    \cup {Absent}

\* lines 135-144
reshapeCollection(collection) ==
    IF collection = Absent
    THEN Absent
    ELSE Value(Spread(collection,
                      [path |-> <<"/search", "/">> \o Str(collection.handle)]))

\* lines 146-160
RECURSIVE reshapeCollections(_)
reshapeCollections(collections) ==
    IF collections = <<>> THEN <<>>
    ELSE LET collection == Head(collections)
             reshapedCollection == reshapeCollection(collection)
         IN  (IF collection # Absent /\ reshapedCollection # Absent
              THEN <<reshapedCollection.value>> ELSE <<>>)
             \o reshapeCollections(Tail(collections))

\* image.url.match(/.*\/(.*)\..*/)?.[1]: the last path segment before its last
\* dot; undefined for a url without a slash followed by a dot
filenameOf(url) ==
    CASE url = "/img/t-shirt-1.avif" -> "t-shirt-1"
      [] url = "/img/hoodie.v2.png" -> "hoodie.v2"
      [] url = "plain" -> Undefined

ShopifyImages ==
    { [altText |-> alt, height |-> 500, url |-> url, width |-> 500] :
          alt \in {"", "A cool t-shirt"},
          url \in {"/img/t-shirt-1.avif", "plain"} }

\* `${x}` for a string or undefined
Interpolate(x) == IF x = Undefined THEN "undefined" ELSE x

\* lines 162-172
reshapeImages(images, productTitle) ==
    LET flattened == removeEdgesAndNodes(images).items
    IN  Array([i \in 1..Len(flattened) |->
                  LET image == flattened[i]
                      filename == filenameOf(image.url)
                  IN  Spread(image,
                             [altText |->
                                  IF ~Falsy(image.altText) THEN <<image.altText>>
                                  ELSE <<productTitle, " - ", Interpolate(filename)>>])])

\* HIDDEN_PRODUCT_TAG of lib/constants
HIDDEN_PRODUCT_TAG == "nextjs-frontend-hidden"

TagLists == { <<"cotton">>, <<"cotton", HIDDEN_PRODUCT_TAG>> }

ShopifyProduct(id, tags, images) ==
    [handle |-> "classic-t-shirt", id |-> id, images |-> Connection(images),
     tags |-> tags, title |-> "Classic T-Shirt",
     variants |-> Connection(<<[id |-> "00101", title |-> "Small"]>>)]

\* The products of the upstream, one with an image and one without, and the
\* absent one
ShopifyProducts ==
    { ShopifyProduct(id, tags,
                     IF id = "001"
                     THEN <<[altText |-> "", height |-> 500,
                             url |-> "/img/t-shirt-1.avif", width |-> 500]>>
                     ELSE <<>>) :
          id \in {"001", "002"}, tags \in TagLists }
    \cup {Absent}

\* reshapeProduct that never filters
reshapeProductUnfiltered(product, o) ==
    IF product = Absent
    THEN Absent
    ELSE Value(Spread([k \in DOMAIN product \ {"images", "variants"} |-> product[k]],
                      [images |-> reshapeImages(product.images, product.title),
                       variants |-> removeEdgesAndNodes(product.variants)]))

\* lines 174-186; o holds filterHiddenProducts when the caller gives it
reshapeProduct(product, o) ==
    LET filterHiddenProducts ==
            IF "filterHiddenProducts" \in DOMAIN o THEN o.filterHiddenProducts ELSE TRUE
    IN  IF product = Absent
           \/ (filterHiddenProducts /\ HIDDEN_PRODUCT_TAG \in Range(product.tags))
        THEN Absent
        ELSE Value(Spread([k \in DOMAIN product \ {"images", "variants"} |-> product[k]],
                          [images |-> reshapeImages(product.images, product.title),
                           variants |-> removeEdgesAndNodes(product.variants)]))

\* lines 188-202
RECURSIVE reshapeProducts(_)
reshapeProducts(products) ==
    IF products = <<>> THEN <<>>
    ELSE LET product == Head(products)
             reshapedProduct == reshapeProduct(product, NoFields)
         IN  (IF product # Absent /\ reshapedProduct # Absent
              THEN <<reshapedProduct.value>> ELSE <<>>)
             \o reshapeProducts(Tail(products))

----------------------------------------------------------------------------
(* The call record every action writes *)

NoRequest == [sent |-> FALSE]

\* An operation that neither invalidates a tag nor sends a request, nor writes
\* to an object of its caller
Returns(o, a, r) ==
    /\ op' = o
    /\ args' = a
    /\ result' = r
    /\ tagCalls' = <<>>
    /\ request' = NoRequest
    /\ argsAfter' = a
    /\ UNCHANGED <<env, invalidated, remembered>>

CreateCart == Returns("createCart", [none |-> TRUE], createCart)

AddToCart ==
    \E cartId \in CartIds, lines \in SeqsUpTo(AddLines, MaxLines) :
        Returns("addToCart", [cartId |-> cartId, lines |-> lines],
                addToCart(cartId, lines))

\* removeFromCart invalidating the products tag on its own
RemoveFromCartInvalidating ==
    \E cartId \in CartIds, lineIds \in SeqsUpTo(LineIds, MaxLines) :
        /\ op' = "removeFromCart"
        /\ args' = [cartId |-> cartId, lineIds |-> lineIds]
        /\ result' = removeFromCart(cartId, lineIds)
        /\ tagCalls' = <<TAGS.products>>
        /\ invalidated' = invalidated \cup {TAGS.products}
        /\ request' = NoRequest
        /\ argsAfter' = args'
        /\ UNCHANGED <<env, remembered>>

RemoveFromCart ==
    \E cartId \in CartIds, lineIds \in SeqsUpTo(LineIds, MaxLines) :
        Returns("removeFromCart", [cartId |-> cartId, lineIds |-> lineIds],
                removeFromCart(cartId, lineIds))

UpdateCart ==
    \E cartId \in CartIds, lines \in SeqsUpTo(UpdateLines, MaxLines) :
        Returns("updateCart", [cartId |-> cartId, lines |-> lines],
                updateCart(cartId, lines))

GetCart ==
    \E cartId \in CartIds \cup {Undefined} :
        Returns("getCart", [cartId |-> cartId], getCart(cartId))

GetCollection ==
    \E handle \in Handles, now \in Timestamps :
        Returns("getCollection", [handle |-> handle], getCollection(handle, now))

GetCollectionProducts ==
    \E collection \in {"All", "nope"}, reverse \in Reverses, sortKey \in SortKeys,
       now \in Timestamps :
        LET a == Spread([collection |-> collection, sortKey |-> sortKey], reverse)
        IN  Returns("getCollectionProducts", a, getCollectionProducts(a, now))

GetCollections ==
    \E now \in Timestamps :
        Returns("getCollections", [none |-> TRUE], getCollections(now))

GetMenu ==
    \E handle \in Handles : Returns("getMenu", [handle |-> handle], getMenu(handle))

GetPage ==
    \E handle \in Handles, now \in Timestamps :
        Returns("getPage", [handle |-> handle], getPage(handle, now))

GetPages ==
    \E now \in Timestamps : Returns("getPages", [none |-> TRUE], getPages(now))

GetProduct ==
    \E handle \in Handles, now \in Timestamps :
        Returns("getProduct", [handle |-> handle], getProduct(handle, now))

GetProductRecommendations ==
    \E productId \in MerchandiseIds, now \in Timestamps :
        Returns("getProductRecommendations", [productId |-> productId],
                getProductRecommendations(productId, now))

GetProducts ==
    \E query \in SearchQueries, reverse \in Reverses, sortKey \in SortKeys,
       now \in Timestamps :
        LET a == Spread([query |-> query, sortKey |-> sortKey], reverse)
        IN  Returns("getProducts", a, getProducts(a, now))

ReadOps ==
    {"getCart", "getProduct", "getProducts", "getCollection", "getCollectionProducts",
     "getCollections", "getPage", "getPages", "getMenu", "getProductRecommendations"}

CartOps == {"createCart", "addToCart", "removeFromCart", "updateCart", "getCart"}

NoCall == [args |-> [none |-> TRUE], op |-> "init", result |-> Absent]

\* Observer: keep the last cart call to compare later calls with it
Remember ==
    /\ op \in CartOps
    /\ remembered # [args |-> args, op |-> op, result |-> result]
    /\ remembered' = [args |-> args, op |-> op, result |-> result]
    /\ UNCHANGED <<env, op, args, result, tagCalls, invalidated, request, argsAfter>>

----------------------------------------------------------------------------
(* Calls of the shape normalizers and of the menu path rewrite *)

\* The cart the last reshapeCart returned, to be reshaped again
ReturnedCarts ==
    IF op = "reshapeCart" /\ result.kind = "value" THEN {result.value} ELSE {}

ReshapeCart ==
    \E cart \in ShopifyCarts \cup ReturnedCarts :
        LET r == reshapeCart(cart)
        IN  /\ op' = "reshapeCart"
            /\ args' = [cart |-> cart]
            /\ result' = r.result
            /\ argsAfter' = [cart |-> r.after]
            /\ tagCalls' = <<>>
            /\ request' = NoRequest
            /\ UNCHANGED <<env, invalidated, remembered>>

ReshapeCollection ==
    \E collection \in ShopifyCollections :
        Returns("reshapeCollection", [collection |-> collection],
                reshapeCollection(collection))

ReshapeCollections ==
    \E collections \in SeqsUpTo(ShopifyCollections, MaxEdges) :
        Returns("reshapeCollections", [collections |-> collections],
                List(reshapeCollections(collections)))

ReshapeImages ==
    \E images \in SeqsUpTo(ShopifyImages, MaxEdges),
       productTitle \in {"Classic T-Shirt"} :
        Returns("reshapeImages",
                [images |-> Connection(images), productTitle |-> productTitle],
                Value(reshapeImages(Connection(images), productTitle)))

ReshapeProduct ==
    \E product \in ShopifyProducts,
       o \in {NoFields} \cup [filterHiddenProducts : BOOLEAN] :
        Returns("reshapeProduct", Spread([product |-> product], o),
                reshapeProduct(product, o))

ReshapeProducts ==
    \E products \in SeqsUpTo(ShopifyProducts, MaxEdges) :
        Returns("reshapeProducts", [products |-> products],
                List(reshapeProducts(products)))

PathPieces == {"https://", "shop.example", "/collections", "/pages", "/about"}

\* The paths of menu items an upstream may hold
MenuPaths == SeqsUpTo(PathPieces, MaxPieces)

MenuPath ==
    \E path \in MenuPaths :
        Returns("menuPath", [path |-> path], Value(menuPath(path)))

ReshapeOps ==
    {"reshapeCart", "reshapeCollection", "reshapeCollections", "reshapeImages",
     "reshapeProduct", "reshapeProducts"}

----------------------------------------------------------------------------
(* Webhook revalidation handler: lines 1193-1221 *)

collectionWebhooks ==
    <<"collections/create", "collections/delete", "collections/update">>
productWebhooks == <<"products/create", "products/delete", "products/update">>

\* headers().get('x-shopify-topic'): null, one topic, or the values of a
\* repeated header joined into one string
TopicHeaders ==
    {Null, "orders/create", "collections/update, products/update"}
    \cup Range(collectionWebhooks) \cup Range(productWebhooks)

RequestSecrets == {Null, "", "s3cret", "wrong"}

\* NextResponse.json(body): an HTTP 200 response with that JSON body
NextResponseJson(body) == [body |-> body, kind |-> "response", status |-> 200]

\* revalidate without the check of lines 1203-1206
revalidateNoSecretCheck(secret, topicHeader, now) ==
    LET topic == IF Falsy(topicHeader) THEN "unknown" ELSE topicHeader
        isCollectionUpdate == topic \in Range(collectionWebhooks)
        isProductUpdate == topic \in Range(productWebhooks)
    IN  IF ~isCollectionUpdate /\ ~isProductUpdate
        THEN [response |-> NextResponseJson([status |-> 200]), tags |-> <<>>]
        ELSE [response |->
                  NextResponseJson([now |-> now, revalidated |-> TRUE, status |-> 200]),
              tags |-> (IF isCollectionUpdate THEN <<TAGS.collections>> ELSE <<>>)
                       \o (IF isProductUpdate THEN <<TAGS.products>> ELSE <<>>)]

\* revalidate with the tags of lines 1214 and 1218 exchanged
revalidateSwappedTags(secret, topicHeader, now) ==
    LET topic == IF Falsy(topicHeader) THEN "unknown" ELSE topicHeader
        isCollectionUpdate == topic \in Range(collectionWebhooks)
        isProductUpdate == topic \in Range(productWebhooks)
    IN  IF Falsy(secret) \/ secret # env.SHOPIFY_REVALIDATION_SECRET
        THEN [response |-> NextResponseJson([status |-> 200]), tags |-> <<>>]
        ELSE IF ~isCollectionUpdate /\ ~isProductUpdate
        THEN [response |-> NextResponseJson([status |-> 200]), tags |-> <<>>]
        ELSE [response |->
                  NextResponseJson([now |-> now, revalidated |-> TRUE, status |-> 200]),
              tags |-> (IF isCollectionUpdate THEN <<TAGS.products>> ELSE <<>>)
                       \o (IF isProductUpdate THEN <<TAGS.collections>> ELSE <<>>)]

\* revalidate answering a bad secret with 401 Unauthorized
revalidateUnauthorized(secret, topicHeader, now) ==
    LET topic == IF Falsy(topicHeader) THEN "unknown" ELSE topicHeader
        isCollectionUpdate == topic \in Range(collectionWebhooks)
        isProductUpdate == topic \in Range(productWebhooks)
    IN  IF Falsy(secret) \/ secret # env.SHOPIFY_REVALIDATION_SECRET
        THEN [response |-> [body |-> [status |-> 401], kind |-> "response",
                            status |-> 401],
              tags |-> <<>>]
        ELSE IF ~isCollectionUpdate /\ ~isProductUpdate
        THEN [response |-> NextResponseJson([status |-> 200]), tags |-> <<>>]
        ELSE [response |->
                  NextResponseJson([now |-> now, revalidated |-> TRUE, status |-> 200]),
              tags |-> (IF isCollectionUpdate THEN <<TAGS.collections>> ELSE <<>>)
                       \o (IF isProductUpdate THEN <<TAGS.products>> ELSE <<>>)]

\* revalidate invalidating both tags for every recognised topic
revalidateBothTags(secret, topicHeader, now) ==
    LET topic == IF Falsy(topicHeader) THEN "unknown" ELSE topicHeader
        isCollectionUpdate == topic \in Range(collectionWebhooks)
        isProductUpdate == topic \in Range(productWebhooks)
    IN  IF Falsy(secret) \/ secret # env.SHOPIFY_REVALIDATION_SECRET
        THEN [response |-> NextResponseJson([status |-> 200]), tags |-> <<>>]
        ELSE IF ~isCollectionUpdate /\ ~isProductUpdate
        THEN [response |-> NextResponseJson([status |-> 200]), tags |-> <<>>]
        ELSE [response |->
                  NextResponseJson([now |-> now, revalidated |-> TRUE, status |-> 200]),
              tags |-> <<TAGS.collections, TAGS.products>>]

revalidate(secret, topicHeader, now) ==
    LET topic == IF Falsy(topicHeader) THEN "unknown" ELSE topicHeader
        isCollectionUpdate == topic \in Range(collectionWebhooks)
        isProductUpdate == topic \in Range(productWebhooks)
    IN  IF Falsy(secret) \/ secret # env.SHOPIFY_REVALIDATION_SECRET
        THEN [response |-> NextResponseJson([status |-> 200]), tags |-> <<>>]
        ELSE IF ~isCollectionUpdate /\ ~isProductUpdate
        THEN [response |-> NextResponseJson([status |-> 200]), tags |-> <<>>]
        ELSE [response |->
                  NextResponseJson([now |-> now, revalidated |-> TRUE, status |-> 200]),
              tags |-> (IF isCollectionUpdate THEN <<TAGS.collections>> ELSE <<>>)
                       \o (IF isProductUpdate THEN <<TAGS.products>> ELSE <<>>)]

Revalidate ==
    \E secret \in RequestSecrets, topicHeader \in TopicHeaders, now \in Timestamps :
        LET r == revalidate(secret, topicHeader, now)
        IN  /\ op' = "revalidate"
            /\ args' = [secret |-> secret, topic |-> topicHeader]
            /\ result' = r.response
            /\ tagCalls' = r.tags
            /\ invalidated' = invalidated \cup Range(r.tags)
            /\ request' = NoRequest
            /\ argsAfter' = args'
            /\ UNCHANGED <<env, remembered>>

----------------------------------------------------------------------------
(* Properties of the webhook revalidation handler *)

ConfiguredSecret == env.SHOPIFY_REVALIDATION_SECRET

\* The request's secret is missing, or differs from the configured one
BadSecret == args.secret = Null \/ args.secret # ConfiguredSecret

\* C1: a revalidate request whose secret is missing or differs from the
\* configured secret invalidates no cache tag, whatever its topic, and is
\* answered with status 200 and no `revalidated` field.
C1_BadSecretInvalidatesNothing ==
    (op = "revalidate" /\ BadSecret) =>
        /\ tagCalls = <<>>
        /\ result.status = 200
        /\ result.body.status = 200
        /\ "revalidated" \notin DOMAIN result.body

C1_Witness ==
    /\ op = "revalidate"
    /\ ConfiguredSecret = "s3cret"
    /\ args.secret = "wrong"
    /\ args.topic = "products/update"
    /\ tagCalls = <<>>
    /\ DOMAIN result.body = {"status"}

\* What C2 says of the request handled last
ExactTag ==
    /\ args.topic \in Range(productWebhooks) =>
           /\ tagCalls = <<"products">>
           /\ "revalidated" \in DOMAIN result.body
           /\ result.body.revalidated = TRUE
    /\ args.topic \in Range(collectionWebhooks) =>
           /\ tagCalls = <<"collections">>
           /\ "revalidated" \in DOMAIN result.body
           /\ result.body.revalidated = TRUE
    /\ args.topic \notin Range(productWebhooks) \cup Range(collectionWebhooks) =>
           /\ tagCalls = <<>>
           /\ "revalidated" \notin DOMAIN result.body

\* C2, as stated: a request with the correct secret invalidates exactly the tag
\* of its topic (products or collections) and reports revalidated: true; any
\* other topic invalidates nothing and reports no `revalidated` field.
C2_Original ==
    (op = "revalidate" /\ args.secret = ConfiguredSecret) => ExactTag

\* C2, amended: the same, for a request whose secret is correct and not the
\* empty string (line 1203 rejects an empty secret even when the configured
\* secret is empty too).
C2_CorrectSecretInvalidatesExactTag ==
    (op = "revalidate" /\ args.secret = ConfiguredSecret /\ args.secret # "") =>
        ExactTag

C2_Witness ==
    /\ op = "revalidate"
    /\ args.secret = ConfiguredSecret
    /\ args.secret # ""
    /\ args.topic = "products/update"
    /\ tagCalls = <<"products">>
    /\ invalidated = {"products"}
    /\ result.body.revalidated = TRUE

\* C3: every invocation of revalidate, for every secret and topic header, ends
\* with a response of status 200.
C3_AlwaysAcknowledges200 ==
    op = "revalidate" =>
        /\ result.kind = "response"
        /\ result.status = 200
        /\ result.body.status = 200

C3_Witness ==
    /\ op = "revalidate"
    /\ args.secret = Null
    /\ args.topic = Null
    /\ result.kind = "response"
    /\ result.status = 200

\* C21: a single invocation of revalidate invalidates at most one of the two
\* cache tags: no request, whatever its topic and secret, makes both
\* revalidateTag(collections) and revalidateTag(products) run.
C21_AtMostOneTagPerRequest ==
    op = "revalidate" =>
        /\ Len(tagCalls) <= 1
        /\ ~({TAGS.collections, TAGS.products} \subseteq Range(tagCalls))

C21_Witness ==
    /\ op = "revalidate"
    /\ args.secret = ConfiguredSecret
    /\ args.topic = "collections/update"
    /\ tagCalls = <<"collections">>
    /\ invalidated = {"collections", "products"}

----------------------------------------------------------------------------
(* Properties of the cart operations *)

\* C4: every cart a cart operation returns has totalQuantity equal to the sum
\* of the quantities of its lines.
C4_TotalQuantityIsSum ==
    (op \in CartOps /\ result.kind = "cart") =>
        result.totalQuantity = SumQty(result.lines)

\* C5: after addToCart(cartId, [{merchandiseId: m, quantity: q}]), a following
\* getCart(cartId) returns a cart with a line of merchandise m and quantity q.
C5_AddThenGetRoundTrip ==
    ( /\ remembered.op = "addToCart"
      /\ Len(remembered.args.lines) = 1
      /\ op = "getCart"
      /\ args.cartId = remembered.args.cartId ) =>
        /\ result.kind = "cart"
        /\ \E i \in 1..Len(result.lines) :
              /\ result.lines[i].merchandise.id = remembered.args.lines[1].merchandiseId
              /\ result.lines[i].quantity = remembered.args.lines[1].quantity

\* The value of a decimal string with two fraction digits, in hundredths
Hundredths(d) == d.units * 100 + d.frac[1] * 10 + d.frac[2]

LinesOf(r) == IF r.kind = "cart" THEN Range(r.lines) ELSE {}

\* The lines of the two carts under comparison
ObservedLines == LinesOf(result) \cup LinesOf(remembered.result)

\* C6: every line's cost.totalAmount is its quantity times the unit price of
\* its merchandise, one unit price per merchandise id across all lines and all
\* cart operations: any two lines of the same merchandise have the same
\* amount per unit.
C6_OneUnitPricePerMerchandise ==
    op \in CartOps =>
        \A l1, l2 \in ObservedLines :
            l1.merchandise.id = l2.merchandise.id =>
                Hundredths(l1.cost.totalAmount.amount) * l2.quantity
                    = Hundredths(l2.cost.totalAmount.amount) * l1.quantity

----------------------------------------------------------------------------
(* Properties of cache invalidation and of the transport client *)

\* C8: no read operation and no cart write invalidates a cache tag: the set of
\* invalidated tags changes only in a revalidate step.
C8_OnlyRevalidateInvalidates ==
    [][invalidated' # invalidated => op' = "revalidate"]_vars

C8_Witness ==
    /\ invalidated = {"collections", "products"}
    /\ op = "removeFromCart"
    /\ tagCalls = <<>>

\* C9: every request shopifyFetch sends carries the configured access token in
\* X-Shopify-Storefront-Access-Token and Content-Type application/json,
\* whatever headers the caller supplies.
C9_CredentialHeadersKept ==
    (op = "shopifyFetch" /\ request.sent) =>
        /\ request.headers["X-Shopify-Storefront-Access-Token"] = key
        /\ request.headers["Content-Type"] = "application/json"

UpstreamErrorFields == {"cause", "status", "message", "query"}
TransportErrorFields == {"error", "query"}

\* C10: shopifyFetch returns no success when the body carries a non-empty
\* errors list: it fails with the first error of the list as an
\* UpstreamError {cause, status, message, query}; a network or parse failure
\* fails as a TransportError {error, query}; every failure carries the query
\* and has exactly one of the two shapes.
C10_FailureClassification ==
    op = "shopifyFetch" =>
        LET up == args.upstream
            first == up.errors[1]
        IN  /\ (up.does = "errors" /\ up.errors # <<>>) =>
                   /\ result.kind = "throw"
                   /\ DOMAIN result.value = UpstreamErrorFields
                   /\ result.value.message = first.message
                   /\ result.value.cause =
                          (IF "cause" \in DOMAIN first THEN first.cause ELSE "unknown")
                   /\ result.value.status =
                          (IF "status" \in DOMAIN first THEN first.status ELSE 500)
            /\ up.does = "fetch throws" =>
                   /\ result.kind = "throw"
                   /\ DOMAIN result.value = TransportErrorFields
                   /\ result.value.error = NetworkFailure
            /\ up.does = "json throws" =>
                   /\ result.kind = "throw"
                   /\ DOMAIN result.value = TransportErrorFields
                   /\ result.value.error = ParseFailure
            /\ result.kind = "throw" =>
                   /\ result.value.query = args.in.query
                   /\ DOMAIN result.value \in {UpstreamErrorFields, TransportErrorFields}
            /\ result.kind = "ok" => up.does = "data"

C10_Witness ==
    /\ op = "shopifyFetch"
    /\ args.upstream.does = "errors"
    /\ Len(args.upstream.errors) = 2
    /\ args.upstream.errors[1] = Denied
    /\ args.upstream.errors[2] = Throttled
    /\ result.kind = "throw"
    /\ result.value.message = "Access denied"
    /\ result.value.status = 403

----------------------------------------------------------------------------
(* Properties of the read operations *)

\* C11: getCollectionProducts called with a collection handle that matches no
\* collection data returns an empty sequence of products and does not raise.
C11_UnknownCollectionIsEmpty ==
    ( /\ op = "getCollectionProducts"
      /\ \A now \in Timestamps : getCollection(args.collection, now) = Absent ) =>
        result = List(<<>>)

\* The entries of a listing whose value for key k is v, in the listing's order
WithKey(items, k, v) == SelectSeq(items, LAMBDA p : p[k] = v)

\* sorted holds the entries of unsorted, those of equal key in unsorted's order
StableOn(sorted, unsorted, k) ==
    /\ Len(sorted) = Len(unsorted)
    /\ \A v \in {p[k] : p \in Range(unsorted)} :
           WithKey(sorted, k, v) = WithKey(unsorted, k, v)

Ascending(items, k) ==
    \A i, j \in 1..Len(items) : i < j => StrRank(items[i][k]) <= StrRank(items[j][k])

Descending(items, k) ==
    \A i, j \in 1..Len(items) : i < j => StrRank(items[i][k]) >= StrRank(items[j][k])

\* C13: getCollectionProducts treats reverse and sortKey as getProducts does:
\* with a recognized sortKey the result is in ascending order of that key when
\* reverse is false or absent, and in descending order when reverse is true.
C13_ReverseMeansDescending ==
    ( /\ \/ op = "getCollectionProducts" /\ isValidProductKey(args.sortKey)
         \/ op = "getProducts" /\ isKeyOfProduct(args.sortKey)
      /\ ~Falsy(args.sortKey) ) =>
        IF Given(args, "reverse")
        THEN Descending(result.items, args.sortKey)
        ELSE Ascending(result.items, args.sortKey)

\* The handles of the static collections (line 446) and pages (lines 746, 759)
CollectionHandles == {"All"}
PageHandles == {"about", "contact"}

\* C14: getCollection with a handle that matches no collection returns absence
\* without raising; getPage with a handle that matches no page fails with a
\* not-found error instead of returning a value.
C14_LookupMissAsymmetry ==
    /\ (op = "getCollection" /\ args.handle \notin CollectionHandles) =>
           result = Absent
    /\ (op = "getPage" /\ args.handle \notin PageHandles) =>
           /\ result.kind = "throw"
           /\ result.value.type = "Error"
           /\ result.value.message =
                  <<"Page with handle '", args.handle, "' not found.">>

\* The collections of a result: the value of getCollection, the items of
\* getCollections
ReturnedCollections ==
    IF op = "getCollection" /\ result.kind = "value" THEN {result.value}
    ELSE IF op = "getCollections" THEN Range(result.items)
    ELSE {}

\* C15: every collection the adapter returns has path equal to `/search/`
\* followed by its own handle.
C15_PathIsSearchHandle ==
    \A c \in ReturnedCollections :
        /\ {"handle", "path"} \subseteq DOMAIN c
        /\ c.path = <<"/search", "/">> \o Str(c.handle)

----------------------------------------------------------------------------
(* Properties of the shape normalizers and of the menu path rewrite *)

\* A decimal string whose digits are all zero
IsZero(d) == d.units = 0 /\ \A i \in 1..Len(d.frac) : d.frac[i] = 0

\* C16: for every cart K whose cost has no totalTaxAmount, reshapeCart(K)
\* returns a cart whose cost.totalTaxAmount is a zero amount in the currency of
\* K's other cost amounts.
C16_DefaultTaxInCartCurrency ==
    ( /\ op = "reshapeCart"
      /\ "cost" \in DOMAIN args.cart
      /\ "totalTaxAmount" \notin DOMAIN args.cart.cost ) =>
        /\ result.kind = "value"
        /\ IsZero(result.value.cost.totalTaxAmount.amount)
        /\ result.value.cost.totalTaxAmount.currencyCode
               = args.cart.cost.totalAmount.currencyCode

\* C17: cart normalization is idempotent: reshapeCart applied to the cart that
\* reshapeCart returned succeeds and returns that same cart.
C17_ReshapeCartIdempotent ==
    [][ ( /\ op = "reshapeCart" /\ result.kind = "value"
          /\ op' = "reshapeCart" /\ args'.cart = result.value ) =>
            result' = result ]_vars

Hidden(product) == HIDDEN_PRODUCT_TAG \in Range(product.tags)

\* The products of a list that are present and not hidden, in the list's order
Listed(products) == SelectSeq(products, LAMBDA p : p # Absent /\ ~Hidden(p))

\* C18: for a product whose tags include the hidden marker, reshapeProduct with
\* filtering enabled (the default) yields nothing and reshapeProduct(P, false)
\* yields a product; reshapeProducts returns no product carrying the marker and
\* keeps the other products in input order.
C18_HiddenProductsFiltered ==
    /\ ( /\ op = "reshapeProduct"
         /\ args.product # Absent
         /\ Hidden(args.product) ) =>
            IF "filterHiddenProducts" \in DOMAIN args /\ ~args.filterHiddenProducts
            THEN /\ result.kind = "value"
                 /\ result.value.id = args.product.id
                 /\ result.value.tags = args.product.tags
            ELSE result = Absent
    /\ op = "reshapeProducts" =>
            /\ \A p \in Range(result.items) : ~Hidden(p)
            /\ Len(result.items) = Len(Listed(args.products))
            /\ \A i \in 1..Len(result.items) :
                   /\ result.items[i].id = Listed(args.products)[i].id
                   /\ result.items[i].tags = Listed(args.products)[i].tags

C18_Witness ==
    /\ op = "reshapeProducts"
    /\ Len(args.products) = 2
    /\ args.products[1] # Absent
    /\ Hidden(args.products[1])
    /\ args.products[1].id = "001"
    /\ args.products[2] # Absent
    /\ ~Hidden(args.products[2])
    /\ Len(result.items) = 1
    /\ result.items[1].id = "002"

\* C19: the menu path rewrite (strip the store domain, /collections to
\* /search, remove /pages) is idempotent: rewriting a rewritten path gives the
\* rewritten path again.
C19_MenuPathIdempotent ==
    op = "menuPath" => menuPath(result.value) = result.value

\* C20: reshapeCart, reshapeCollection, reshapeImages and reshapeProduct leave
\* the object passed to them unchanged: after the call the caller's argument
\* has the cost and the lines connection it had before.
C20_NormalizersLeaveArgument ==
    op \in ReshapeOps => argsAfter = args

----------------------------------------------------------------------------
(* Specifications *)

Init ==
    /\ env \in [SHOPIFY_REVALIDATION_SECRET : Secrets,
                SHOPIFY_STOREFRONT_ACCESS_TOKEN : {AccessToken},
                SHOPIFY_STORE_DOMAIN : StoreDomains]
    /\ op = "init"
    /\ args = [none |-> TRUE]
    /\ result = Absent
    /\ tagCalls = <<>>
    /\ invalidated = {}
    /\ request = NoRequest
    /\ argsAfter = args
    /\ remembered = NoCall

Next ==
    \/ CreateCart
    \/ AddToCart
    \/ RemoveFromCart
    \/ UpdateCart
    \/ GetCart
    \/ GetCollection
    \/ GetCollectionProducts
    \/ GetCollections
    \/ GetMenu
    \/ GetPage
    \/ GetPages
    \/ GetProduct
    \/ GetProductRecommendations
    \/ GetProducts
    \/ Revalidate
    \/ ShopifyFetch

Spec == Init /\ [][Next]_vars

\* The cart operations alone, with the observer
NextCart ==
    \/ CreateCart
    \/ AddToCart
    \/ RemoveFromCart
    \/ UpdateCart
    \/ GetCart
    \/ Remember

\* The cart operations read no configuration: one configuration stands for all
InitCart ==
    /\ Init
    /\ env.SHOPIFY_REVALIDATION_SECRET = "s3cret"
    /\ env.SHOPIFY_STORE_DOMAIN = "shop.example"

SpecCart == InitCart /\ [][NextCart]_vars

\* The shape normalizers and the menu path rewrite, applied to upstream values
NextReshape ==
    \/ ReshapeCart
    \/ ReshapeCollection
    \/ ReshapeCollections
    \/ ReshapeImages
    \/ ReshapeProduct
    \/ ReshapeProducts
    \/ MenuPath

\* Only the store domain is read (line 739): one secret stands for all
InitReshape ==
    /\ Init
    /\ env.SHOPIFY_REVALIDATION_SECRET = "s3cret"

SpecReshape == InitReshape /\ [][NextReshape]_vars

====
